---- MODULE Spec2Model ----
(***************************************************************************)
(* Order pricing of ap-backend: the order controller (calculateOrderAmount, *)
(* createOrder, updateOrder, updateOrderStatus, cancelOrder) over the      *)
(* Coupon, Discount, Order, Cart and Settings collections.                 *)
(*                                                                         *)
(* Money is an integer number of minor units.  Every percentage of the     *)
(* model (10, 50) divides the amounts it is applied to without remainder,  *)
(* so the integer arithmetic below equals the controller's arithmetic.     *)
(* An optional numeric field that is absent is 0: the code tests these      *)
(* fields by truthiness (`coupon.usageLimit && ...`), which reads 0 and     *)
(* absent alike.                                                           *)
(***************************************************************************)
EXTENDS Integers, Sequences, FiniteSets, TLC

VARIABLES
    now,        \* the clock read by `new Date()`
    coupons,    \* Coupon collection: code -> [usedCount, isActive]
    discounts,  \* Discount collection: id -> [usedCount, isActive]
    orders,     \* Order collection, in insertion order
    carts,      \* Cart collection: user -> the user's cart
    resp,       \* the response to the request handled by the last step
    reqs,       \* the createOrder requests in flight, each with what it has read
    tasks,      \* Task collection: the number of daily tasks per template, owner
                \* and day of creation
    gens        \* the generateDailyTasks invocations, each with what it has left

vars == <<now, coupons, discounts, orders, carts, resp, reqs, tasks, gens>>

----------------------------------------------------------------------------
(* Bounds of the model *)

MaxQty == 2         \* largest quantity of one product in a request
MaxOrders == 1      \* createOrder requests are handled while fewer orders exist
MaxTime == 1        \* the clock runs 0..MaxTime
MaxUsed == 2        \* applyCoupon requests are handled while usedCount is below

----------------------------------------------------------------------------
(* The documents the requests run against *)

Users == {"cust", "adm"}

\* req.user.role, set by the authentication middleware
Role(u) == IF u = "adm" THEN "admin" ELSE "user"

\* Product collection: the products that exist, and their price
ProductIds == {"p1"}
Price(p) == 1000

\* product ids a request may name; "px" is the id of no product
ReqProducts == ProductIds \cup {"px"}

\* req.body.items: quantity per product named (0: the product is not named)
\* a request that names the missing product names it alone, once
ItemSets ==
    {items \in [ReqProducts -> 0..MaxQty] :
        items["px"] = 0 \/ (items["px"] = 1 /\ items["p1"] = 0)}

\* Settings.value of the 'pricing' document, which no request of the model
\* changes; the fraction tax_rate (0.10) is written as a percentage
PricingSettings == [tax_rate |-> 10, shipping_cost |-> 500]

FarFuture == MaxTime + 7

CouponCodes == {"SAVE20", "HALF"}

\* the stored fields of a coupon that no request changes
CouponDoc(c) ==
    CASE c = "SAVE20" ->
            [discountType |-> "fixed", discountValue |-> 2000,
             minimumOrderAmount |-> 0, maximumDiscount |-> 0,
             validFrom |-> 0, validUntil |-> FarFuture, usageLimit |-> 1]
      [] OTHER ->
            [discountType |-> "percentage", discountValue |-> 50,
             minimumOrderAmount |-> 1500, maximumDiscount |-> 1200,
             validFrom |-> 0, validUntil |-> FarFuture, usageLimit |-> 0]

\* req.body.couponCode; "" is no code, "NOPE" is the code of no coupon
ReqCodes == {"", "save20", "HALF", "NOPE"}

\* String.prototype.toUpperCase on the codes of the model
ToUpperCase(s) == IF s = "save20" THEN "SAVE20" ELSE s

\* Discount.find returns the documents in this order
DiscountOrder == <<"d_pct", "d_bulk">>
DiscountIds == {DiscountOrder[i] : i \in 1..Len(DiscountOrder)}

\* the stored fields of a discount that no request changes
DiscountDoc(d) ==
    CASE d = "d_pct" ->
            [type |-> "percentage", value |-> 100,
             minimumOrderAmount |-> 2000, maximumDiscount |-> 0,
             validFrom |-> 1, validUntil |-> FarFuture, usageLimit |-> 0,
             bulkThreshold |-> 0, bulkDiscount |-> 0]
      [] OTHER ->
            [type |-> "bulk", value |-> 50,
             minimumOrderAmount |-> 0, maximumDiscount |-> 0,
             validFrom |-> 1, validUntil |-> FarFuture, usageLimit |-> 1,
             bulkThreshold |-> 2, bulkDiscount |-> 50]

\* discount.applicableProducts: the bulk discount is for one product, which is
\* not p1; the percentage discount has no scope
ApplicableProducts(d) == IF d = "d_bulk" THEN {"p2"} ELSE {}

Statuses == {"pending", "confirmed", "processing", "delivered", "cancelled"}

----------------------------------------------------------------------------
(* Arithmetic helpers *)

Min(a, b) == IF a < b THEN a ELSE b

RECURSIVE Sum(_, _)
Sum(f, S) ==
    IF S = {} THEN 0
    ELSE LET x == CHOOSE y \in S : TRUE IN f[x] + Sum(f, S \ {x})

RECURSIVE SumAmounts(_)
SumAmounts(seq) ==
    IF seq = <<>> THEN 0 ELSE Head(seq).discountAmount + SumAmounts(Tail(seq))

----------------------------------------------------------------------------
(* Items and the pre-discount amounts *)

\* items.length === 0: the request names no product
NoItems(items) == \A p \in ReqProducts : items[p] = 0

\* Product.findById returns null for some item: the handler throws
ProductMissing(items) == \E p \in ReqProducts : items[p] > 0 /\ p \notin ProductIds

\* the orderItems / updatedItems array: product, quantity, priceAtOrder
OrderItems(items) ==
    {[product |-> p, quantity |-> items[p], priceAtOrder |-> Price(p)] :
        p \in {q \in ProductIds : items[q] > 0}}

\* subtotal += product.price * item.quantity over the items
Subtotal(items) == Sum([p \in ProductIds |-> Price(p) * items[p]], ProductIds)

\* items.reduce((sum, item) => sum + item.quantity, 0)
TotalQuantity(items) == Sum(items, ReqProducts)

\* a percentage p of an amount (amount * (p / 100))
Pct(amount, p) == (amount * p) \div 100

\* subtotal, tax and shipping from the items and the pricing settings
PriceItems(items) ==
    LET v == PricingSettings
        subtotal == Subtotal(items)
        taxAmount == Pct(subtotal, v.tax_rate)
    IN  [subtotal |-> subtotal,
         taxRate |-> v.tax_rate,
         taxAmount |-> taxAmount,
         shippingCost |-> v.shipping_cost,
         totalWithTaxAndShipping |-> subtotal + taxAmount + v.shipping_cost]

----------------------------------------------------------------------------
(* Coupon model *)

\* mutant of FindActiveCoupon: the query leaves out isActive: true
FindCouponIgnoringActive(code, cs, t) ==
    LET c == ToUpperCase(code)
    IN  IF /\ c \in CouponCodes
           /\ CouponDoc(c).validFrom <= t
           /\ CouponDoc(c).validUntil >= t
        THEN c ELSE ""

\* Coupon.findOne({code, isActive: true, validFrom <= now, validUntil >= now});
\* "" stands for null
FindActiveCoupon(code, cs, t) ==
    LET c == ToUpperCase(code)
    IN  IF /\ c \in CouponCodes
           /\ cs[c].isActive
           /\ CouponDoc(c).validFrom <= t
           /\ CouponDoc(c).validUntil >= t
        THEN c ELSE ""

\* usageLimit && usageLimit > 0 && usedCount >= usageLimit
CouponLimitReached(c, cs) ==
    /\ CouponDoc(c).usageLimit > 0
    /\ cs[c].usedCount >= CouponDoc(c).usageLimit

\* minimumOrderAmount && amount < minimumOrderAmount
CouponBelowMinimum(c, amount) ==
    /\ CouponDoc(c).minimumOrderAmount > 0
    /\ amount < CouponDoc(c).minimumOrderAmount

\* the discount as the two handlers compute it inline, before any clamp
InlineCouponDiscount(c, subtotal) ==
    IF CouponDoc(c).discountType = "percentage"
    THEN LET d == Pct(subtotal, CouponDoc(c).discountValue)
         IN  IF CouponDoc(c).maximumDiscount > 0
             THEN Min(d, CouponDoc(c).maximumDiscount) ELSE d
    ELSE CouponDoc(c).discountValue

\* couponSchema.virtual('isValid')
CouponIsValid(c, cs, t) ==
    /\ cs[c].isActive
    /\ t >= CouponDoc(c).validFrom
    /\ t <= CouponDoc(c).validUntil
    /\ (CouponDoc(c).usageLimit = 0 \/ cs[c].usedCount < CouponDoc(c).usageLimit)

\* couponSchema.methods.canBeUsed
CouponCanBeUsed(c, cs, t, orderAmount) ==
    /\ CouponIsValid(c, cs, t)
    /\ ~CouponBelowMinimum(c, orderAmount)

\* couponSchema.methods.calculateDiscount
CouponCalculateDiscount(c, orderAmount) ==
    LET doc == CouponDoc(c)
        discountAmount ==
            IF doc.discountType = "percentage"
            THEN LET d == Pct(orderAmount, doc.discountValue)
                 IN  IF doc.maximumDiscount > 0 THEN Min(d, doc.maximumDiscount) ELSE d
            ELSE doc.discountValue
    IN  Min(discountAmount, orderAmount)

\* mutant of CouponIncrementUsage: the count goes up and isActive is left alone
CouponIncrementOnly(c, cs) ==
    IF CouponDoc(c).usageLimit > 0
    THEN [cs EXCEPT ![c].usedCount = @ + 1]
    ELSE cs

\* couponSchema.methods.incrementUsage, on the collection
CouponIncrementUsage(c, cs) ==
    IF CouponDoc(c).usageLimit > 0
    THEN LET n == cs[c].usedCount + 1
         IN  [cs EXCEPT ![c] =
                [usedCount |-> n,
                 isActive |-> IF n >= CouponDoc(c).usageLimit THEN FALSE
                              ELSE cs[c].isActive]]
    ELSE cs

----------------------------------------------------------------------------
(* Discount model *)

\* Discount.find({isActive: true, validFrom <= now, validUntil >= now})
ActiveDiscounts(ds, t) ==
    SelectSeq(DiscountOrder,
              LAMBDA d : /\ ds[d].isActive
                         /\ DiscountDoc(d).validFrom <= t
                         /\ DiscountDoc(d).validUntil >= t)

\* discountSchema.virtual('isValid')
DiscountIsValid(d, ds, t) ==
    /\ ds[d].isActive
    /\ t >= DiscountDoc(d).validFrom
    /\ t <= DiscountDoc(d).validUntil
    /\ (DiscountDoc(d).usageLimit = 0 \/ ds[d].usedCount < DiscountDoc(d).usageLimit)

\* mutant of CanBeApplied: the bulk threshold is not looked at
CanBeAppliedAnyQuantity(d, ds, t, orderAmount, totalQuantity) ==
    /\ DiscountIsValid(d, ds, t)
    /\ ~(DiscountDoc(d).minimumOrderAmount > 0
            /\ orderAmount < DiscountDoc(d).minimumOrderAmount)

\* discountSchema.methods.canBeApplied(orderAmount, totalQuantity).valid
CanBeApplied(d, ds, t, orderAmount, totalQuantity) ==
    /\ DiscountIsValid(d, ds, t)
    /\ ~(DiscountDoc(d).minimumOrderAmount > 0
            /\ orderAmount < DiscountDoc(d).minimumOrderAmount)
    /\ ~(DiscountDoc(d).type = "bulk" /\ DiscountDoc(d).bulkThreshold > 0
            /\ totalQuantity < DiscountDoc(d).bulkThreshold)

\* discountSchema.methods.calculateDiscount(orderAmount, totalQuantity)
DiscountCalculate(d, orderAmount, totalQuantity) ==
    LET doc == DiscountDoc(d)
        raw == CASE doc.type = "percentage" -> Pct(orderAmount, doc.value)
                 [] doc.type = "fixed" -> doc.value
                 [] doc.type = "bulk" ->
                        IF doc.bulkThreshold > 0 /\ totalQuantity >= doc.bulkThreshold
                        THEN Pct(orderAmount, doc.bulkDiscount) ELSE 0
                 [] OTHER -> 0
        capped == IF doc.maximumDiscount > 0 THEN Min(raw, doc.maximumDiscount) ELSE raw
    IN  Min(capped, orderAmount)

\* discountSchema.methods.incrementUsage, on the collection
DiscountIncrementUsage(d, ds) ==
    IF DiscountDoc(d).usageLimit > 0
    THEN LET n == ds[d].usedCount + 1
         IN  [ds EXCEPT ![d] =
                [usedCount |-> n,
                 isActive |-> IF n >= DiscountDoc(d).usageLimit THEN FALSE
                              ELSE ds[d].isActive]]
    ELSE ds

\* one entry of an automaticDiscounts array
AutoEntry(d, amount) == [discount |-> d, discountAmount |-> amount]

\* mutant of SkipLoop: each discount is computed on what the discounts before
\* it have left of the amount
RECURSIVE SkipLoopRunning(_, _, _, _, _)
SkipLoopRunning(active, ds, t, amountAfterCoupon, totalQuantity) ==
    IF active = <<>> THEN <<>>
    ELSE LET d == Head(active)
             amount == DiscountCalculate(d, amountAfterCoupon, totalQuantity)
         IN  IF ~CanBeApplied(d, ds, t, amountAfterCoupon, totalQuantity)
             THEN SkipLoopRunning(Tail(active), ds, t, amountAfterCoupon,
                                  totalQuantity)
             ELSE IF amount > 0
             THEN <<AutoEntry(d, amount)>> \o
                    SkipLoopRunning(Tail(active), ds, t, amountAfterCoupon - amount,
                                    totalQuantity)
             ELSE SkipLoopRunning(Tail(active), ds, t, amountAfterCoupon,
                                  totalQuantity)

\* the loop of calculateOrderAmount and updateOrder over the active discounts:
\* a discount that cannot be applied, or that amounts to 0, is passed over
RECURSIVE SkipLoop(_, _, _, _, _)
SkipLoop(active, ds, t, amountAfterCoupon, totalQuantity) ==
    IF active = <<>> THEN <<>>
    ELSE LET d == Head(active)
             rest == SkipLoop(Tail(active), ds, t, amountAfterCoupon, totalQuantity)
             amount == DiscountCalculate(d, amountAfterCoupon, totalQuantity)
         IN  IF ~CanBeApplied(d, ds, t, amountAfterCoupon, totalQuantity) THEN rest
             ELSE IF amount > 0 THEN <<AutoEntry(d, amount)>> \o rest
             ELSE rest

----------------------------------------------------------------------------
(* Responses *)

Errors == {"", "InvalidItems", "Exception", "CouponNotFound", "CouponUsageLimit",
           "MinimumOrderNotMet", "DiscountValidationFailed", "OrderNotFound",
           "Forbidden", "CannotUpdate", "CannotCancel"}

\* the body of a response that carries no pricing breakdown
NoBody ==
    [subtotal |-> 0, taxAmount |-> 0, shippingCost |-> 0, discountAmount |-> 0,
     couponDiscount |-> 0, amountAfterCoupon |-> 0, automaticDiscounts |-> <<>>,
     totalAutomaticDiscount |-> 0, finalTotal |-> 0, appliedCoupon |-> ""]

\* res.status(status).json({error}) of a handler that answers with a failure
Failure(status, err) == [status |-> status, err |-> err, body |-> NoBody]

\* res.status(status).json({order}) of a handler that answers with the order;
\* of the order, the model keeps the code of the applied coupon
Success(status, order) ==
    [status |-> status, err |-> "",
     body |-> [NoBody EXCEPT !.appliedCoupon = order.appliedCoupon.code]]

\* no request has been handled by the last step
Idle == [op |-> "none", status |-> 0, err |-> "", coupon |-> ""]

\* what the model keeps of a response: the handler that answered, the HTTP
\* status, the error of the body and the code of the coupon the body reports
Response(op, r) ==
    [op |-> op, status |-> r.status, err |-> r.err, coupon |-> r.body.appliedCoupon]

----------------------------------------------------------------------------
(* POST /orders/calculate *)

\* orderController.calculateOrderAmount: the response for a request body
\* {items, couponCode, preserveOriginalPricing} against the collections
CalculateOrderAmountResult(items, code, preserve, cs, ds, t) ==
    IF NoItems(items) THEN Failure(400, "InvalidItems")
    ELSE IF ProductMissing(items) THEN Failure(400, "Exception")
    ELSE
    LET p == PriceItems(items)
        coupon == IF code = "" THEN "" ELSE FindActiveCoupon(code, cs, t)
    IN  IF code # "" /\ coupon = "" THEN Failure(400, "CouponNotFound")
        ELSE IF coupon # "" /\ CouponLimitReached(coupon, cs)
            THEN Failure(400, "CouponUsageLimit")
        ELSE IF coupon # "" /\ CouponBelowMinimum(coupon, p.subtotal)
            THEN Failure(400, "MinimumOrderNotMet")
        ELSE
        LET couponDiscount ==
                IF coupon = "" THEN 0 ELSE InlineCouponDiscount(coupon, p.subtotal)
            amountAfterCoupon == p.totalWithTaxAndShipping - couponDiscount
            automaticDiscounts ==
                IF preserve THEN <<>>
                ELSE SkipLoop(ActiveDiscounts(ds, t), ds, t, amountAfterCoupon,
                              TotalQuantity(items))
            totalAutomaticDiscount == SumAmounts(automaticDiscounts)
        IN  [status |-> 200, err |-> "",
             body |-> [subtotal |-> p.subtotal,
                       taxAmount |-> p.taxAmount,
                       shippingCost |-> p.shippingCost,
                       discountAmount |-> couponDiscount + totalAutomaticDiscount,
                       couponDiscount |-> couponDiscount,
                       amountAfterCoupon |-> amountAfterCoupon,
                       automaticDiscounts |-> automaticDiscounts,
                       totalAutomaticDiscount |-> totalAutomaticDiscount,
                       finalTotal |-> amountAfterCoupon - totalAutomaticDiscount,
                       appliedCoupon |-> coupon]]

\* mutant of CalculateOrderAmount: the preview redeems the coupon it applies
CalculateOrderAmountCommitting ==
    \E items \in ItemSets, code \in ReqCodes, preserve \in BOOLEAN :
        LET r == CalculateOrderAmountResult(items, code, preserve,
                                            coupons, discounts, now)
        IN  /\ resp' = Response("calculateOrderAmount", r)
            /\ coupons' = IF r.body.appliedCoupon = "" THEN coupons
                          ELSE CouponIncrementUsage(r.body.appliedCoupon, coupons)
            /\ UNCHANGED <<now, tasks, gens, discounts, orders, carts, reqs>>

CalculateOrderAmount ==
    \E items \in ItemSets, code \in ReqCodes, preserve \in BOOLEAN :
        /\ resp' = Response("calculateOrderAmount",
                CalculateOrderAmountResult(items, code, preserve,
                                           coupons, discounts, now))
        /\ UNCHANGED <<now, tasks, gens, coupons, discounts, orders, carts, reqs>>

----------------------------------------------------------------------------
(* POST /orders *)

NoCoupon == [couponId |-> "", code |-> "", discountAmount |-> 0]

\* the store calls of createOrder that may fail after the pricing is done;
\* "none": the store answers every call
FailPoints == {"none", "order.save", "Cart.findOne"}

\* a final total that stops at zero
FinalTotalFloored(totalWithTaxAndShipping, totalDiscount) ==
    IF totalWithTaxAndShipping < totalDiscount THEN 0
    ELSE totalWithTaxAndShipping - totalDiscount

\* createOrder: const finalTotal = totalWithTaxAndShipping - totalDiscount
FinalTotal(totalWithTaxAndShipping, totalDiscount) ==
    totalWithTaxAndShipping - totalDiscount

\* the loop of createOrder over the active discounts: a discount that cannot
\* be applied ends the request with 400; one that amounts to more than 0 is
\* recorded and its usage incremented at once
RECURSIVE CommitLoop(_, _, _, _, _)
CommitLoop(active, ds, t, amountAfterCoupon, totalQuantity) ==
    IF active = <<>> THEN [valid |-> TRUE, discounts |-> ds, automaticDiscounts |-> <<>>]
    ELSE LET d == Head(active)
             amount == DiscountCalculate(d, amountAfterCoupon, totalQuantity)
         IN  IF ~CanBeApplied(d, ds, t, amountAfterCoupon, totalQuantity)
             THEN [valid |-> FALSE, discounts |-> ds, automaticDiscounts |-> <<>>]
             ELSE IF amount > 0
             THEN LET rest == CommitLoop(Tail(active), DiscountIncrementUsage(d, ds), t,
                                         amountAfterCoupon, totalQuantity)
                  IN  [rest EXCEPT !.automaticDiscounts = <<AutoEntry(d, amount)>> \o @]
             ELSE CommitLoop(Tail(active), ds, t, amountAfterCoupon, totalQuantity)

\* mutant of ClearCart: the cart is emptied and stays the active cart
ClearCartKeepActive(cart) == [items |-> 0, appliedCoupon |-> "", isActive |-> cart.isActive]

\* cartSchema.methods.clearCart
ClearCart(cart) == [items |-> 0, appliedCoupon |-> "", isActive |-> FALSE]

\* a handler's outcome: its response and the collections as it leaves them
Outcome(r, cs, ds, os, cts) ==
    [response |-> r, coupons |-> cs, discounts |-> ds, orders |-> os, carts |-> cts]

\* orderController.createOrder for the body {items, couponCode} of user u;
\* fail names the store call that fails, if any
CreateOrderOutcome(u, items, code, fail, cs, ds, os, cts, t) ==
    IF NoItems(items) THEN Outcome(Failure(400, "InvalidItems"), cs, ds, os, cts)
    ELSE IF ProductMissing(items) THEN Outcome(Failure(400, "Exception"), cs, ds, os, cts)
    ELSE
    LET p == PriceItems(items)
        coupon == IF code = "" THEN "" ELSE FindActiveCoupon(code, cs, t)
    IN  IF code # "" /\ coupon = ""
            THEN Outcome(Failure(400, "CouponNotFound"), cs, ds, os, cts)
        ELSE IF coupon # "" /\ CouponBelowMinimum(coupon, p.subtotal)
            THEN Outcome(Failure(400, "MinimumOrderNotMet"), cs, ds, os, cts)
        ELSE IF coupon # "" /\ CouponLimitReached(coupon, cs)
            THEN Outcome(Failure(400, "CouponUsageLimit"), cs, ds, os, cts)
        ELSE
        LET discountAmount ==
                IF coupon = "" THEN 0
                ELSE Min(InlineCouponDiscount(coupon, p.subtotal), p.subtotal)
            appliedCoupon ==
                IF coupon = "" THEN NoCoupon
                ELSE [couponId |-> coupon, code |-> coupon,
                      discountAmount |-> discountAmount]
            \* await coupon.incrementUsage()
            cs1 == IF coupon = "" THEN cs ELSE CouponIncrementUsage(coupon, cs)
            amountAfterCoupon == p.subtotal - discountAmount
            loop == CommitLoop(ActiveDiscounts(ds, t), ds, t, amountAfterCoupon,
                               TotalQuantity(items))
        IN  IF ~loop.valid
            THEN Outcome(Failure(400, "DiscountValidationFailed"),
                         cs1, loop.discounts, os, cts)
            ELSE
            LET totalDiscount == discountAmount + SumAmounts(loop.automaticDiscounts)
                finalTotal == FinalTotal(p.totalWithTaxAndShipping, totalDiscount)
                order ==
                    [user |-> u,
                     items |-> OrderItems(items),
                     pricing |-> [subtotal |-> p.subtotal,
                                  taxRate |-> p.taxRate,
                                  taxAmount |-> p.taxAmount,
                                  shippingCost |-> p.shippingCost,
                                  discountAmount |-> totalDiscount,
                                  discountCode |-> appliedCoupon.code,
                                  totalAmount |-> finalTotal],
                     appliedCoupon |-> appliedCoupon,
                     automaticDiscounts |-> loop.automaticDiscounts,
                     totalAmount |-> finalTotal,
                     status |-> "pending"]
                os1 == Append(os, order)
            IN  IF fail = "order.save"
                THEN Outcome(Failure(400, "Exception"), cs1, loop.discounts, os, cts)
                ELSE IF fail = "Cart.findOne"
                THEN Outcome(Failure(400, "Exception"), cs1, loop.discounts, os1, cts)
                ELSE Outcome(Success(201, order),
                             cs1, loop.discounts, os1,
                             IF cts[u].isActive
                             THEN [cts EXCEPT ![u] = ClearCart(@)] ELSE cts)

CreateOrder ==
    /\ Len(orders) < MaxOrders
    /\ \E u \in Users, items \in ItemSets, code \in ReqCodes, fail \in FailPoints :
        LET o == CreateOrderOutcome(u, items, code, fail, coupons,
                                    discounts, orders, carts, now)
        IN  /\ resp' = Response("createOrder", o.response)
            /\ coupons' = o.coupons
            /\ discounts' = o.discounts
            /\ orders' = o.orders
            /\ carts' = o.carts
            /\ UNCHANGED <<now, tasks, gens, reqs>>

----------------------------------------------------------------------------
(* PUT /orders/:id *)

\* originalOrderHadDiscounts
OriginalOrderHadDiscounts(order) ==
    \/ order.appliedCoupon # NoCoupon
    \/ Len(order.automaticDiscounts) > 0
    \/ order.pricing.discountAmount > 0

\* Coupon.findOne({code}) of updateOrder, then `coupon && coupon.isActive` and
\* coupon.canBeUsed(totalWithTaxAndShipping).valid; "" when the coupon is not applied
FindUsableCoupon(code, cs, t, totalWithTaxAndShipping) ==
    LET c == ToUpperCase(code)
    IN  IF /\ c \in CouponCodes
           /\ cs[c].isActive
           /\ CouponCanBeUsed(c, cs, t, totalWithTaxAndShipping)
        THEN c ELSE ""

\* Order.findByIdAndUpdate(orderId, {items: updatedItems})
ItemsOnlyUpdate(order, items) == [order EXCEPT !.items = OrderItems(items)]

\* Order.findByIdAndUpdate(orderId, {items, totalAmount, pricing, appliedCoupon,
\* automaticDiscounts}) with the recalculated pricing.  A key of the update whose
\* value is undefined is removed from the update by mongoose (^8.0.3), so the
\* stored appliedCoupon is replaced only when a coupon was applied
RepricingUpdate(order, items, code, cs, ds, t) ==
    LET p == PriceItems(items)
        coupon == IF code = "" THEN ""
                  ELSE FindUsableCoupon(code, cs, t, p.totalWithTaxAndShipping)
        couponDiscount ==
            IF coupon = "" THEN 0
            ELSE CouponCalculateDiscount(coupon, p.totalWithTaxAndShipping)
        amountAfterCoupon == p.totalWithTaxAndShipping - couponDiscount
        automaticDiscounts ==
            IF OriginalOrderHadDiscounts(order)
            THEN SkipLoop(ActiveDiscounts(ds, t), ds, t, amountAfterCoupon,
                          TotalQuantity(items))
            ELSE <<>>
        totalAutomaticDiscount == SumAmounts(automaticDiscounts)
        finalTotal == amountAfterCoupon - totalAutomaticDiscount
    IN  [order EXCEPT
            !.items = OrderItems(items),
            !.totalAmount = finalTotal,
            !.pricing = [subtotal |-> p.subtotal,
                         taxRate |-> p.taxRate,
                         taxAmount |-> p.taxAmount,
                         shippingCost |-> p.shippingCost,
                         discountAmount |-> couponDiscount + totalAutomaticDiscount,
                         discountCode |-> code,
                         totalAmount |-> finalTotal],
            !.appliedCoupon =
                IF coupon = "" THEN @
                ELSE [couponId |-> coupon, code |-> coupon,
                      discountAmount |-> couponDiscount],
            !.automaticDiscounts = automaticDiscounts]

\* mutant of CanBeUpdated: a cancelled order is let through as well
CanBeUpdatedOrCancelled(status) == status \in {"pending", "processing", "cancelled"}

\* ['pending', 'processing'].includes(order.status)
CanBeUpdated(status) == status \in {"pending", "processing"}

\* orderController.updateOrder for the body {items, couponCode} of user u on
\* order oid
UpdateOrderOutcome(u, oid, items, code, cs, ds, os, cts, t) ==
    IF NoItems(items) THEN Outcome(Failure(400, "InvalidItems"), cs, ds, os, cts)
    ELSE IF oid \notin 1..Len(os)
        THEN Outcome(Failure(404, "OrderNotFound"), cs, ds, os, cts)
    ELSE IF os[oid].user # u /\ Role(u) # "admin"
        THEN Outcome(Failure(403, "Forbidden"), cs, ds, os, cts)
    ELSE IF ~CanBeUpdated(os[oid].status)
        THEN Outcome(Failure(400, "CannotUpdate"), cs, ds, os, cts)
    ELSE IF ProductMissing(items)
        THEN Outcome(Failure(400, "Exception"), cs, ds, os, cts)
    ELSE
    LET updatedOrder ==
            IF os[oid].status \in {"confirmed", "delivered"}
                THEN ItemsOnlyUpdate(os[oid], items)
            ELSE IF code = "" /\ ~OriginalOrderHadDiscounts(os[oid])
                THEN ItemsOnlyUpdate(os[oid], items)
            ELSE RepricingUpdate(os[oid], items, code, cs, ds, t)
    IN  Outcome(Success(200, updatedOrder), cs, ds,
                [os EXCEPT ![oid] = updatedOrder], cts)

\* order ids a request may name: the orders that exist and one that does not
ReqOrderIds == 1..(Len(orders) + 1)

\* mutant of UpdateOrder: the edit redeems the coupon the order carries
UpdateOrderRedeeming ==
    \E u \in Users, oid \in ReqOrderIds, items \in ItemSets, code \in ReqCodes :
        LET o == UpdateOrderOutcome(u, oid, items, code, coupons,
                                    discounts, orders, carts, now)
            applied == o.response.body.appliedCoupon
        IN  /\ resp' = Response("updateOrder", o.response)
            /\ coupons' = IF applied = "" THEN o.coupons
                          ELSE CouponIncrementUsage(applied, o.coupons)
            /\ discounts' = o.discounts
            /\ orders' = o.orders
            /\ carts' = o.carts
            /\ UNCHANGED <<now, tasks, gens, reqs>>

UpdateOrder ==
    \E u \in Users, oid \in ReqOrderIds, items \in ItemSets, code \in ReqCodes :
        LET o == UpdateOrderOutcome(u, oid, items, code, coupons,
                                    discounts, orders, carts, now)
        IN  /\ resp' = Response("updateOrder", o.response)
            /\ coupons' = o.coupons
            /\ discounts' = o.discounts
            /\ orders' = o.orders
            /\ carts' = o.carts
            /\ UNCHANGED <<now, tasks, gens, reqs>>

----------------------------------------------------------------------------
(* PATCH /orders/:id/status and POST /orders/:id/cancel *)

\* orderController.updateOrderStatus: Order.findByIdAndUpdate(id, {status})
UpdateOrderStatusOutcome(u, oid, status, cs, ds, os, cts) ==
    IF oid \notin 1..Len(os)
    THEN Outcome(Failure(404, "OrderNotFound"), cs, ds, os, cts)
    ELSE Outcome(Success(200, os[oid]), cs, ds,
                 [os EXCEPT ![oid].status = status], cts)

UpdateOrderStatus ==
    \E u \in Users, oid \in ReqOrderIds, status \in Statuses :
        LET o == UpdateOrderStatusOutcome(u, oid, status, coupons, discounts,
                                          orders, carts)
        IN  /\ resp' = Response("updateOrderStatus", o.response)
            /\ orders' = o.orders
            /\ UNCHANGED <<now, tasks, gens, coupons, discounts, carts, reqs>>

\* orderController.cancelOrder
CancelOrderOutcome(u, oid, cs, ds, os, cts) ==
    IF oid \notin 1..Len(os) \/ os[oid].user # u
    THEN Outcome(Failure(404, "OrderNotFound"), cs, ds, os, cts)
    ELSE IF os[oid].status \notin {"pending", "confirmed"}
    THEN Outcome(Failure(400, "CannotCancel"), cs, ds, os, cts)
    ELSE Outcome(Success(200, os[oid]), cs, ds,
                 [os EXCEPT ![oid].status = "cancelled"], cts)

CancelOrder ==
    \E u \in Users, oid \in ReqOrderIds :
        LET o == CancelOrderOutcome(u, oid, coupons, discounts, orders, carts)
        IN  /\ resp' = Response("cancelOrder", o.response)
            /\ orders' = o.orders
            /\ UNCHANGED <<now, tasks, gens, coupons, discounts, carts, reqs>>

----------------------------------------------------------------------------
(* POST /coupons/:couponId/apply *)

\* req.params.couponId: the coupons that exist and the id of none
ReqCouponIds == CouponCodes \cup {"c_none"}

\* couponController.applyCoupon: Coupon.findById, then coupon.incrementUsage()
ApplyCouponOutcome(couponId, cs, ds, os, cts) ==
    IF couponId \notin CouponCodes
    THEN Outcome(Failure(404, "CouponNotFound"), cs, ds, os, cts)
    ELSE Outcome([status |-> 200, err |-> "",
                  body |-> [NoBody EXCEPT !.appliedCoupon = couponId]],
                 CouponIncrementUsage(couponId, cs), ds, os, cts)

ApplyCoupon ==
    \E couponId \in ReqCouponIds :
        LET o == ApplyCouponOutcome(couponId, coupons, discounts, orders, carts)
        IN  /\ couponId \in CouponCodes => coupons[couponId].usedCount < MaxUsed
            /\ resp' = Response("applyCoupon", o.response)
            /\ coupons' = o.coupons
            /\ UNCHANGED <<now, tasks, gens, discounts, orders, carts, reqs>>

----------------------------------------------------------------------------
(* Concurrent POST /orders: createOrder between its awaits *)

\* two requests handled at the same time
Racers == {"r1", "r2"}

\* a request that has not arrived, or has been answered
NoRequest == [pc |-> "idle", user |-> "", items |-> <<>>, code |-> "",
              coupon |-> "", doc |-> [usedCount |-> 0, isActive |-> FALSE]]

\* the Coupon collection as a request sees it: the coupon it holds is the
\* document Coupon.findOne returned to it, not the stored one
SeenBy(r, cs) == IF r.coupon = "" THEN cs ELSE [cs EXCEPT ![r.coupon] = r.doc]

\* createOrder up to `await Coupon.findOne(...)` and the checks on the document
\* it returns: the request is answered 400, or goes on holding the document
RaceFindCoupon(p) ==
    /\ reqs[p].pc = "idle"
    /\ \E u \in Users, items \in ItemSets, code \in ReqCodes :
        LET o == CreateOrderOutcome(u, items, code, "none", coupons, discounts,
                                    orders, carts, now)
            coupon == IF code = "" THEN "" ELSE FindActiveCoupon(code, coupons, now)
            rejected == o.response.err \in {"InvalidItems", "Exception", "CouponNotFound",
                                            "MinimumOrderNotMet", "CouponUsageLimit"}
        IN  IF rejected
            THEN /\ resp' = Response("createOrder", o.response)
                 /\ UNCHANGED reqs
            ELSE /\ reqs' = [reqs EXCEPT ![p] =
                        [pc |-> "found", user |-> u, items |-> items, code |-> code,
                         coupon |-> coupon,
                         doc |-> IF coupon = "" THEN NoRequest.doc ELSE coupons[coupon]]]
                 /\ resp' = Idle
    /\ UNCHANGED <<now, tasks, gens, coupons, discounts, orders, carts>>

\* mutant of RaceIncrementUsage: the count is added to the stored document
\* (an atomic $inc) instead of being written from the document held
RaceIncrementStored(p) ==
    /\ reqs[p].pc = "found"
    /\ coupons' = IF reqs[p].coupon = "" THEN coupons
                  ELSE CouponIncrementUsage(reqs[p].coupon, coupons)
    /\ reqs' = [reqs EXCEPT ![p].pc = "incremented"]
    /\ resp' = Idle
    /\ UNCHANGED <<now, tasks, gens, discounts, orders, carts>>

\* `await coupon.incrementUsage()`: the method counts on the document the
\* request holds, and save() writes the paths it changed ($set)
RaceIncrementUsage(p) ==
    /\ reqs[p].pc = "found"
    /\ LET r == reqs[p]
           doc == IF r.coupon = "" THEN r.doc
                  ELSE CouponIncrementUsage(r.coupon, SeenBy(r, coupons))[r.coupon]
       IN  /\ coupons' =
                IF r.coupon = "" \/ doc = r.doc THEN coupons
                ELSE [coupons EXCEPT ![r.coupon] =
                        [usedCount |-> doc.usedCount,
                         isActive |-> IF doc.isActive # r.doc.isActive
                                      THEN doc.isActive ELSE @.isActive]]
           /\ reqs' = [reqs EXCEPT ![p].pc = "incremented"]
    /\ resp' = Idle
    /\ UNCHANGED <<now, tasks, gens, discounts, orders, carts>>

\* createOrder from Discount.find to the response: the automatic discounts,
\* order.save(), the cart
RaceSaveOrder(p) ==
    /\ reqs[p].pc = "incremented"
    /\ LET r == reqs[p]
           o == CreateOrderOutcome(r.user, r.items, r.code, "none", SeenBy(r, coupons),
                                   discounts, orders, carts, now)
       IN  /\ resp' = Response("createOrder", o.response)
           /\ discounts' = o.discounts
           /\ orders' = o.orders
           /\ carts' = o.carts
    /\ reqs' = [reqs EXCEPT ![p] = [NoRequest EXCEPT !.pc = "done"]]
    /\ UNCHANGED <<now, tasks, gens, coupons>>

----------------------------------------------------------------------------
(* POST /generate-daily-tasks *)

Generators == {"g1", "g2"}

\* TaskTemplate.find({checklistType: 'daily', isActive: true}) and
\* User.find({isActive: true}), which no request of the model changes
DailyTemplates == <<"t_open">>
ActiveUsers == <<"cust", "adm">>

\* the (template, user) pairs in the order of the two nested loops
RECURSIVE PairsFrom(_, _)
PairsFrom(templates, users) ==
    IF templates = <<>> THEN <<>>
    ELSE [i \in 1..Len(users) |-> <<Head(templates), users[i]>>]
            \o PairsFrom(Tail(templates), users)

Pairs == {PairsFrom(DailyTemplates, ActiveUsers)[i] :
            i \in 1..Len(PairsFrom(DailyTemplates, ActiveUsers))}

Days == 0..MaxTime

\* an invocation that is not running
NotRunning == [pc |-> "idle", todo |-> <<>>]

\* Task.find({checklistType: 'daily', createdAt: {$gte: today, $lt: today + 24h}})
ExistingTasks(ts, today) == {pair \in Pairs : ts[pair, today] > 0}

\* generateDailyTasks up to the loops: it returns if a daily task of today
\* exists, or no template, or no user; otherwise it goes on to create a task
\* for every pair
GenerateCheck(g) ==
    /\ gens[g].pc \in {"idle", "done"}
    /\ gens' = [gens EXCEPT ![g] =
                    IF \/ ExistingTasks(tasks, now) # {}
                       \/ DailyTemplates = <<>>
                       \/ ActiveUsers = <<>>
                    THEN [pc |-> "done", todo |-> <<>>]
                    ELSE [pc |-> "creating",
                          todo |-> PairsFrom(DailyTemplates, ActiveUsers)]]
    /\ resp' = Idle
    /\ UNCHANGED <<now, coupons, discounts, orders, carts, reqs, tasks>>

\* one turn of the loops: await Task.create(taskData) for the next pair, with
\* createdAt the time of the insert; after the last pair the invocation ends
GenerateCreate(g) ==
    /\ gens[g].pc = "creating"
    /\ gens[g].todo # <<>>
    /\ LET pair == Head(gens[g].todo)
           rest == Tail(gens[g].todo)
       IN  /\ tasks' = [tasks EXCEPT ![pair, now] = @ + 1]
           /\ gens' = [gens EXCEPT ![g] =
                        [pc |-> IF rest = <<>> THEN "done" ELSE "creating",
                         todo |-> rest]]
    /\ resp' = Idle
    /\ UNCHANGED <<now, coupons, discounts, orders, carts, reqs>>

\* Task.create rejects: the catch logs the error and the invocation ends with
\* the tasks created so far
GenerateFail(g) ==
    /\ gens[g].pc = "creating"
    /\ gens' = [gens EXCEPT ![g] = [pc |-> "done", todo |-> <<>>]]
    /\ resp' = Idle
    /\ UNCHANGED <<now, coupons, discounts, orders, carts, reqs, tasks>>

----------------------------------------------------------------------------
(* The system *)

\* time passes between two requests
Tick ==
    /\ now < MaxTime
    /\ now' = now + 1
    /\ resp' = Idle
    /\ UNCHANGED <<coupons, discounts, orders, carts, reqs, tasks, gens>>

Init ==
    /\ now = 0
    /\ coupons = [c \in CouponCodes |-> [usedCount |-> 0, isActive |-> TRUE]]
    /\ discounts = [d \in DiscountIds |-> [usedCount |-> 0, isActive |-> TRUE]]
    /\ orders = <<>>
    /\ carts = [u \in Users |->
                    IF u = "cust"
                    THEN [items |-> 2, appliedCoupon |-> "SAVE20", isActive |-> TRUE]
                    ELSE [items |-> 0, appliedCoupon |-> "", isActive |-> FALSE]]
    /\ resp = Idle
    /\ reqs = [p \in Racers |-> NoRequest]
    /\ tasks = [key \in Pairs \X Days |-> 0]
    /\ gens = [g \in Generators |-> NotRunning]

Next ==
    \/ CalculateOrderAmount
    \/ CreateOrder
    \/ UpdateOrder
    \/ UpdateOrderStatus
    \/ CancelOrder
    \/ Tick

Spec == Init /\ [][Next]_vars

\* the requests that redeem coupons and discounts, with the previews that read
\* them: the orders stay as createOrder wrote them
NextRedeem ==
    \/ CalculateOrderAmount
    \/ CreateOrder
    \/ ApplyCoupon
    \/ Tick

SpecRedeem == Init /\ [][NextRedeem]_vars

\* two createOrder requests, each handled once, in every interleaving of
\* their steps
NextRace ==
    \/ \E p \in Racers : RaceFindCoupon(p)
    \/ \E p \in Racers : RaceIncrementUsage(p)
    \/ \E p \in Racers : RaceSaveOrder(p)
    \/ Tick

SpecRace == Init /\ [][NextRace]_vars

\* generateDailyTasks invocations, each step of one between the steps of the
\* other, over the days
NextTasks ==
    \/ \E g \in Generators : GenerateCheck(g)
    \/ \E g \in Generators : GenerateCreate(g)
    \/ \E g \in Generators : GenerateFail(g)
    \/ Tick

SpecTasks == Init /\ [][NextTasks]_vars

TypeOK ==
    /\ now \in 0..MaxTime
    /\ \A c \in CouponCodes : coupons[c].usedCount \in Nat /\ coupons[c].isActive \in BOOLEAN
    /\ \A d \in DiscountIds : discounts[d].usedCount \in Nat /\ discounts[d].isActive \in BOOLEAN
    /\ Len(orders) <= MaxOrders + Cardinality(Racers)
    /\ \A i \in 1..Len(orders) : orders[i].status \in Statuses
    /\ resp.err \in Errors
    /\ \A key \in Pairs \X Days : tasks[key] \in Nat
    /\ \A g \in Generators : gens[g].pc \in {"idle", "creating", "done"}

----------------------------------------------------------------------------
(* Properties *)

\* requests that pass the validation of the items and name products that exist
PricedItemSets == {items \in ItemSets : ~NoItems(items) /\ ~ProductMissing(items)}

\* the coupon a request code names is at its usage cap
Exhausted(c) ==
    /\ c \in CouponCodes
    /\ CouponDoc(c).usageLimit > 0
    /\ coupons[c].usedCount = CouponDoc(c).usageLimit

\* the pricing of an order: what a price change would change
PricingOf(order) ==
    <<order.pricing, order.totalAmount, order.appliedCoupon, order.automaticDiscounts>>

FrozenStatuses == {"confirmed", "delivered", "cancelled"}

\* C1: a calculateOrderAmount request, with or without a coupon code, leaves the
\* usedCount and isActive of every coupon and discount, and every order and
\* cart, as they were.
C1_PreviewHasNoSideEffect ==
    [][resp'.op = "calculateOrderAmount"
        => UNCHANGED <<coupons, discounts, orders, carts>>]_vars

\* C1: a preview has priced a request with the capped coupon, which is still
\* unused and active
C1_Witness ==
    /\ resp.op = "calculateOrderAmount"
    /\ resp.status = 200
    /\ resp.coupon = "SAVE20"
    /\ coupons["SAVE20"] = [usedCount |-> 0, isActive |-> TRUE]

\* C2: a createOrder request answers with an error if and only if it persisted
\* no order.
C2_CreateOrderAllOrNothing ==
    [][resp'.op = "createOrder"
        => ((resp'.status # 201) <=> (orders' = orders))]_vars

\* C3: a createOrder request that answers with an error leaves the usedCount and
\* isActive of every coupon and discount as they were.
C3_FailedCreateKeepsCounters ==
    [][(resp'.op = "createOrder" /\ resp'.status # 201)
        => (coupons' = coupons /\ discounts' = discounts)]_vars

\* C4, as claimed: a calculateOrderAmount or createOrder request with priced
\* items that names a coupon at its usage cap is answered with the usage-limit
\* failure.
C4_ExhaustedAnswersUsageLimit ==
    \A code \in ReqCodes :
        Exhausted(ToUpperCase(code)) =>
            /\ \A items \in PricedItemSets, preserve \in BOOLEAN :
                CalculateOrderAmountResult(items, code, preserve, coupons,
                                           discounts, now).err = "CouponUsageLimit"
            /\ \A u \in Users, items \in PricedItemSets, fail \in FailPoints :
                CreateOrderOutcome(u, items, code, fail, coupons, discounts,
                                   orders, carts, now).response.err = "CouponUsageLimit"

\* C4, amended: in every state reached by redemptions a coupon at its usage cap
\* is inactive, and every well-formed calculateOrderAmount and createOrder
\* request that names it is answered 400 with the not-found/inactive failure;
\* createOrder then creates no order and changes no counter.
C4_ExhaustedAnswersNotFound ==
    \A code \in ReqCodes :
        Exhausted(ToUpperCase(code)) =>
            /\ ~coupons[ToUpperCase(code)].isActive
            /\ \A items \in PricedItemSets, preserve \in BOOLEAN :
                CalculateOrderAmountResult(items, code, preserve, coupons,
                                           discounts, now)
                    = Failure(400, "CouponNotFound")
            /\ \A u \in Users, items \in PricedItemSets, fail \in FailPoints :
                CreateOrderOutcome(u, items, code, fail, coupons, discounts,
                                   orders, carts, now)
                    = Outcome(Failure(400, "CouponNotFound"), coupons, discounts,
                              orders, carts)

\* C4: the capped coupon was redeemed by the order, and a later
\* calculateOrderAmount request was answered with the not-found failure
C4_Witness ==
    /\ Exhausted("SAVE20")
    /\ \E i \in 1..Len(orders) : orders[i].appliedCoupon.code = "SAVE20"
    /\ resp.op = "calculateOrderAmount"
    /\ resp.status = 400
    /\ resp.err = "CouponNotFound"

\* C5: for every items and coupon code for which createOrder persists an order,
\* calculateOrderAmount (without preserveOriginalPricing) on the same items and
\* code against the same coupons and discounts returns the order's totalAmount
\* as finalTotal, its coupon discount and its automatic discounts.
C5_CommitEqualsPreview ==
    \A u \in Users, items \in PricedItemSets, code \in ReqCodes :
        LET o == CreateOrderOutcome(u, items, code, "none", coupons, discounts,
                                    <<>>, carts, now)
            preview == CalculateOrderAmountResult(items, code, FALSE, coupons,
                                                  discounts, now)
        IN  o.response.status = 201 =>
                LET order == o.orders[1]
                IN  /\ preview.status = 200
                    /\ preview.body.finalTotal = order.totalAmount
                    /\ preview.body.couponDiscount = order.appliedCoupon.discountAmount
                    /\ preview.body.automaticDiscounts = order.automaticDiscounts

\* C6: every persisted order has pricing.totalAmount = subtotal + taxAmount +
\* shippingCost - discountAmount and totalAmount = pricing.totalAmount, with
\* pricing.discountAmount the discount of the applied coupon plus the sum of the
\* recorded automatic discounts.
C6_PricingAddsUp ==
    \A i \in 1..Len(orders) :
        LET o == orders[i]
        IN  /\ o.pricing.totalAmount =
                   o.pricing.subtotal + o.pricing.taxAmount + o.pricing.shippingCost
                       - o.pricing.discountAmount
            /\ o.totalAmount = o.pricing.totalAmount
            /\ o.pricing.discountAmount =
                   o.appliedCoupon.discountAmount + SumAmounts(o.automaticDiscounts)

\* C7: no request changes the pricing block, totalAmount, appliedCoupon or
\* automaticDiscounts of an order whose status is confirmed, delivered or
\* cancelled.
C7_FrozenPricing ==
    [][\A i \in 1..Len(orders) :
            orders[i].status \in FrozenStatuses
                => /\ i <= Len(orders')
                   /\ PricingOf(orders'[i]) = PricingOf(orders[i])]_vars

\* C7: an updateOrder request was turned away from a delivered order
C7_Witness ==
    /\ resp.op = "updateOrder"
    /\ resp.err = "CannotUpdate"
    /\ \E i \in 1..Len(orders) : orders[i].status = "delivered"

\* the users updateOrder lets edit an order: its owner and the admins
MayEdit(u, order) == order.user = u \/ Role(u) = "admin"

\* C8: an updateOrder request with priced items on a confirmed or delivered
\* order succeeds, replaces the items of the order and leaves its pricing.
C8_ItemOnlyEditAccepted ==
    \A oid \in 1..Len(orders) :
        orders[oid].status \in {"confirmed", "delivered"} =>
            \A u \in Users, items \in PricedItemSets, code \in ReqCodes :
                MayEdit(u, orders[oid]) =>
                    LET o == UpdateOrderOutcome(u, oid, items, code, coupons,
                                                discounts, orders, carts, now)
                    IN  /\ o.response.status = 200
                        /\ o.orders[oid].items = OrderItems(items)
                        /\ PricingOf(o.orders[oid]) = PricingOf(orders[oid])

\* quantity x priceAtOrder summed over the items of an order
ItemsTotal(order) ==
    Sum([it \in order.items |-> it.quantity * it.priceAtOrder], order.items)

C10_EditRunsFullCalculator ==
    \A oid \in 1..Len(orders) :
        CanBeUpdated(orders[oid].status) =>
            \A u \in Users, items \in PricedItemSets, code \in ReqCodes :
                (MayEdit(u, orders[oid])
                    /\ (code # "" \/ OriginalOrderHadDiscounts(orders[oid]))) =>
                    LET o == UpdateOrderOutcome(u, oid, items, code, coupons,
                                                discounts, orders, carts, now)
                        full == CalculateOrderAmountResult(items, code, FALSE, coupons,
                                                           discounts, now)
                        new == o.orders[oid]
                    IN  IF full.status # 200
                        THEN o.response.status # 200 /\ o.orders = orders
                        ELSE /\ o.response.status = 200
                             /\ new.items = OrderItems(items)
                             /\ new.totalAmount = full.body.finalTotal
                             /\ new.pricing.totalAmount = full.body.finalTotal
                             /\ new.pricing.discountAmount = full.body.discountAmount
                             /\ new.automaticDiscounts = full.body.automaticDiscounts

\* the discounts recorded in an automaticDiscounts array
Recorded(automaticDiscounts) ==
    {automaticDiscounts[i].discount : i \in 1..Len(automaticDiscounts)}

\* C11: a createOrder request answered 201 leaves the usedCount of the applied
\* coupon and of every automatic discount recorded on the order one greater
\* than before, whether they have a usage cap or not, and every other usedCount
\* as it was.
C11_CommitIncrementsByOne ==
    [][(resp'.op = "createOrder" /\ resp'.status = 201)
        => LET order == orders'[Len(orders')]
           IN  /\ \A c \in CouponCodes :
                    coupons'[c].usedCount =
                        coupons[c].usedCount
                            + (IF order.appliedCoupon.code = c THEN 1 ELSE 0)
               /\ \A d \in DiscountIds :
                    discounts'[d].usedCount =
                        discounts[d].usedCount
                            + (IF d \in Recorded(order.automaticDiscounts)
                               THEN 1 ELSE 0)]_vars

\* C12: after any sequence of createOrder and applyCoupon requests, every coupon
\* and every discount with usageLimit > 0 and usedCount >= usageLimit has
\* isActive = false.
C12_CapReachedDisables ==
    /\ \A c \in CouponCodes :
        (CouponDoc(c).usageLimit > 0 /\ coupons[c].usedCount >= CouponDoc(c).usageLimit)
            => ~coupons[c].isActive
    /\ \A d \in DiscountIds :
        (DiscountDoc(d).usageLimit > 0
            /\ discounts[d].usedCount >= DiscountDoc(d).usageLimit)
            => ~discounts[d].isActive

\* C12: the capped coupon was redeemed past its cap and the capped discount up
\* to its cap
C12_Witness ==
    /\ coupons["SAVE20"].usedCount > CouponDoc("SAVE20").usageLimit
    /\ discounts["d_bulk"].usedCount = DiscountDoc("d_bulk").usageLimit
    /\ ~coupons["SAVE20"].isActive
    /\ ~discounts["d_bulk"].isActive

\* both concurrent requests have been answered 201 with coupon c applied
BothRedeemed(c) ==
    /\ \A p \in Racers : reqs[p].pc = "done"
    /\ Len(orders) = Cardinality(Racers)
    /\ \A i \in 1..Len(orders) : orders[i].appliedCoupon.code = c

----------------------------------------------------------------------------
(* Orders without a discount *)

\* some discount that Discount.find returns at time t, and none of them can
\* be applied to the items, whether on the subtotal or on the total with tax
\* and shipping
NoneEligible(items, ds, t) ==
    LET p == PriceItems(items)
        active == ActiveDiscounts(ds, t)
    IN  /\ active # <<>>
        /\ \A i \in 1..Len(active), amount \in {p.subtotal, p.totalWithTaxAndShipping} :
                ~CanBeApplied(active[i], ds, t, amount, TotalQuantity(items))

\* C14: a createOrder request without a coupon code, for items to which no
\* active in-window discount can be applied, creates the order with
\* totalAmount = subtotal + taxAmount + shippingCost and discountAmount = 0,
\* and calculateOrderAmount returns that amount as finalTotal
C14_NoDiscountOrderCreated ==
    \A u \in Users, items \in PricedItemSets :
        (Len(orders) < MaxOrders /\ NoneEligible(items, discounts, now)) =>
            LET p == PriceItems(items)
                o == CreateOrderOutcome(u, items, "", "none", coupons, discounts,
                                        orders, carts, now)
                r == CalculateOrderAmountResult(items, "", FALSE, coupons,
                                                discounts, now)
            IN  /\ o.response.status = 201
                /\ Len(o.orders) = Len(orders) + 1
                /\ o.orders[Len(o.orders)].totalAmount = p.totalWithTaxAndShipping
                /\ o.orders[Len(o.orders)].pricing.discountAmount = 0
                /\ r.status = 200
                /\ r.body.finalTotal = p.totalWithTaxAndShipping

----------------------------------------------------------------------------
(* The coupon discount *)

\* the percentage of a coupon taken of the amount, up to maximumDiscount if set
PercentageOf(c, amount) ==
    LET d == Pct(amount, CouponDoc(c).discountValue)
    IN  IF CouponDoc(c).maximumDiscount > 0 THEN Min(d, CouponDoc(c).maximumDiscount)
        ELSE d

\* C15: for a percentage coupon that calculateOrderAmount or createOrder
\* applies, the coupon discount is
\* min((subtotal + taxAmount + shippingCost) x discountValue / 100,
\* maximumDiscount if set)
C15_PercentageOfTotal ==
    \A u \in Users, items \in PricedItemSets, code \in ReqCodes :
        LET p == PriceItems(items)
            r == CalculateOrderAmountResult(items, code, FALSE, coupons,
                                            discounts, now)
            o == CreateOrderOutcome(u, items, code, "none", coupons, discounts,
                                    orders, carts, now)
            c == ToUpperCase(code)
        IN  (c \in CouponCodes /\ CouponDoc(c).discountType = "percentage") =>
                /\ r.status = 200 =>
                        r.body.couponDiscount =
                            PercentageOf(c, p.totalWithTaxAndShipping)
                /\ (Len(orders) < MaxOrders /\ o.response.status = 201) =>
                        o.orders[Len(o.orders)].appliedCoupon.discountAmount =
                            PercentageOf(c, p.totalWithTaxAndShipping)

----------------------------------------------------------------------------
(* Bulk discounts *)

\* the discounts of type bulk that have a threshold
BulkDiscounts ==
    {d \in DiscountIds : DiscountDoc(d).type = "bulk" /\ DiscountDoc(d).bulkThreshold > 0}

\* the total quantity of the items of a stored order
OrderQuantity(order) ==
    Sum([p \in ProductIds |->
            IF \E it \in order.items : it.product = p
            THEN (CHOOSE it \in order.items : it.product = p).quantity ELSE 0],
        ProductIds)

\* C16: a bulk discount with threshold T is not applied to items whose total
\* quantity is below T: canBeApplied refuses it and calculateDiscount gives 0,
\* calculateOrderAmount, createOrder and updateOrder do not list it and
\* createOrder leaves its usage as it was.  With a total quantity of T or
\* more, inside its window, below its usage cap and with its minimum order
\* amount met, canBeApplied accepts it and calculateDiscount gives its
\* percentage of the amount
C16_BulkNeedsThreshold ==
    \A d \in BulkDiscounts, items \in ItemSets :
        LET T == DiscountDoc(d).bulkThreshold
            qty == TotalQuantity(items)
            p == PriceItems(items)
            amounts == {p.subtotal, p.totalWithTaxAndShipping}
        IN  /\ qty < T =>
                /\ \A amount \in amounts :
                        /\ ~CanBeApplied(d, discounts, now, amount, qty)
                        /\ DiscountCalculate(d, amount, qty) = 0
                /\ \A code \in ReqCodes, preserve \in BOOLEAN :
                        d \notin Recorded(
                            CalculateOrderAmountResult(items, code, preserve, coupons,
                                discounts, now).body.automaticDiscounts)
                /\ \A u \in Users, code \in ReqCodes, fail \in FailPoints :
                        LET o == CreateOrderOutcome(u, items, code, fail, coupons,
                                                    discounts, orders, carts, now)
                        IN  /\ o.discounts[d] = discounts[d]
                            /\ \A i \in (Len(orders) + 1)..Len(o.orders) :
                                    d \notin Recorded(o.orders[i].automaticDiscounts)
                /\ \A u \in Users, oid \in 1..Len(orders), code \in ReqCodes :
                        LET o == UpdateOrderOutcome(u, oid, items, code, coupons,
                                                    discounts, orders, carts, now)
                        IN  /\ o.discounts[d] = discounts[d]
                            /\ o.response.status = 200 =>
                                    d \notin Recorded(o.orders[oid].automaticDiscounts)
            /\ \A i \in 1..Len(orders) :
                    d \in Recorded(orders[i].automaticDiscounts) =>
                        OrderQuantity(orders[i]) >= T
            /\ \A amount \in amounts :
                    (/\ qty >= T
                     /\ DiscountIsValid(d, discounts, now)
                     /\ amount >= DiscountDoc(d).minimumOrderAmount) =>
                        /\ CanBeApplied(d, discounts, now, amount, qty)
                        /\ DiscountCalculate(d, amount, qty) =
                                Min(IF DiscountDoc(d).maximumDiscount > 0
                                    THEN Min(Pct(amount, DiscountDoc(d).bulkDiscount),
                                             DiscountDoc(d).maximumDiscount)
                                    ELSE Pct(amount, DiscountDoc(d).bulkDiscount),
                                    amount)

\* an order that came with a coupon has been edited down to one item while the
\* bulk discount was in its window and below its cap, and does not list it
C16_Witness ==
    /\ resp.op = "updateOrder"
    /\ resp.status = 200
    /\ Len(orders) = 1
    /\ orders[1].appliedCoupon # NoCoupon
    /\ OrderQuantity(orders[1]) = 1
    /\ DiscountIsValid("d_bulk", discounts, now)
    /\ "d_bulk" \notin Recorded(orders[1].automaticDiscounts)

----------------------------------------------------------------------------
(* The cart after an order *)

\* C17: when createOrder answers 201 the active cart of the user who placed
\* the order is left without items, without applied coupon and with
\* isActive = false, and every other cart is as it was
C17_CommitClearsOwnCart ==
    [][(resp'.op = "createOrder" /\ resp'.status = 201) =>
            LET u == orders'[Len(orders')].user
            IN  \A v \in Users :
                    IF v = u /\ carts[v].isActive
                    THEN /\ carts'[v].items = 0
                         /\ carts'[v].appliedCoupon = ""
                         /\ ~carts'[v].isActive
                    ELSE carts'[v] = carts[v]]_vars

\* the customer has placed an order and their cart, which held items and a
\* coupon, is cleared
C17_Witness ==
    /\ resp.op = "createOrder"
    /\ resp.status = 201
    /\ Len(orders) = 1
    /\ orders[1].user = "cust"
    /\ carts["cust"] = [items |-> 0, appliedCoupon |-> "", isActive |-> FALSE]

----------------------------------------------------------------------------
(* Coupons on the pricing paths *)

\* the code names no coupon that Coupon.findOne of calculateOrderAmount
\* returns, or one that is out of uses, or one whose minimum order amount the
\* subtotal and the total with tax and shipping both miss
Unresolved(code, items, cs, t) ==
    LET c == FindActiveCoupon(code, cs, t)
        p == PriceItems(items)
    IN  /\ code # ""
        /\ \/ c = ""
           \/ CouponLimitReached(c, cs)
           \/ /\ CouponBelowMinimum(c, p.subtotal)
              /\ CouponBelowMinimum(c, p.totalWithTaxAndShipping)

\* C18: calculateOrderAmount does not fail on a coupon code that does not
\* resolve (unknown, disabled, outside its window, out of uses or below its
\* minimum order amount): it answers 200 with a breakdown in which
\* couponDiscount = 0 and there is no appliedCoupon
C18_PreviewToleratesBadCoupon ==
    \A items \in PricedItemSets, code \in ReqCodes, preserve \in BOOLEAN :
        Unresolved(code, items, coupons, now) =>
            LET r == CalculateOrderAmountResult(items, code, preserve, coupons,
                                                discounts, now)
            IN  /\ r.status = 200
                /\ r.body.couponDiscount = 0
                /\ r.body.appliedCoupon = ""
                /\ r.body.subtotal = PriceItems(items).subtotal

\* C19: on every pricing path the coupon discount is between 0 and
\* A = subtotal + taxAmount + shippingCost, so that the amount after the coupon
\* is not negative: in the breakdown of calculateOrderAmount, on the order
\* createOrder stores and on the order updateOrder reprices with a coupon
C19_CouponDiscountClamped ==
    \A u \in Users, items \in PricedItemSets, code \in ReqCodes :
        LET A == PriceItems(items).totalWithTaxAndShipping
            r == CalculateOrderAmountResult(items, code, FALSE, coupons,
                                            discounts, now)
            o == CreateOrderOutcome(u, items, code, "none", coupons, discounts,
                                    orders, carts, now)
        IN  /\ r.status = 200 =>
                /\ r.body.couponDiscount >= 0
                /\ r.body.couponDiscount <= A
                /\ r.body.amountAfterCoupon >= 0
            /\ o.response.status = 201 =>
                /\ o.orders[Len(o.orders)].appliedCoupon.discountAmount >= 0
                /\ o.orders[Len(o.orders)].appliedCoupon.discountAmount <= A
            /\ \A oid \in 1..Len(orders) :
                    LET e == UpdateOrderOutcome(u, oid, items, code, coupons,
                                                discounts, orders, carts, now)
                    IN  (e.response.status = 200
                            /\ FindUsableCoupon(code, coupons, now, A) # "") =>
                            /\ e.orders[oid].appliedCoupon.discountAmount >= 0
                            /\ e.orders[oid].appliedCoupon.discountAmount <= A

\* C20: in calculateOrderAmount and createOrder a coupon that is found and has
\* uses left is refused for its minimum order amount M exactly when
\* A = subtotal + taxAmount + shippingCost is below M, and is accepted when
\* A >= M, also when the subtotal is below M
C20_MinimumAgainstTotal ==
    \A u \in Users, items \in PricedItemSets, code \in ReqCodes :
        LET A == PriceItems(items).totalWithTaxAndShipping
            c == FindActiveCoupon(code, coupons, now)
            r == CalculateOrderAmountResult(items, code, FALSE, coupons,
                                            discounts, now)
            o == CreateOrderOutcome(u, items, code, "none", coupons, discounts,
                                    orders, carts, now)
        IN  (code # "" /\ c # "" /\ ~CouponLimitReached(c, coupons)) =>
                /\ r.err = "MinimumOrderNotMet" <=> A < CouponDoc(c).minimumOrderAmount
                /\ A >= CouponDoc(c).minimumOrderAmount =>
                        (r.status = 200 /\ r.body.appliedCoupon = c)
                /\ o.response.err = "MinimumOrderNotMet" <=>
                        A < CouponDoc(c).minimumOrderAmount

----------------------------------------------------------------------------
(* Automatic discounts at commit *)

\* the amount createOrder hands to the discounts: the subtotal less the
\* coupon discount
CommitAmountAfterCoupon(items, code, cs, t) ==
    LET p == PriceItems(items)
        coupon == IF code = "" THEN "" ELSE FindActiveCoupon(code, cs, t)
    IN  IF coupon = "" THEN p.subtotal
        ELSE p.subtotal - Min(InlineCouponDiscount(coupon, p.subtotal), p.subtotal)

\* C21: createOrder passes over an active in-window discount that cannot be
\* applied to the order (minimum order amount above the amount after the
\* coupon, bulk threshold not met, or no uses left): a request whose items and
\* coupon code are in order is answered 201, the order does not list that
\* discount and the usage of that discount is as it was
C21_CommitSkipsIneligible ==
    \A u \in Users, items \in PricedItemSets, code \in ReqCodes :
        LET o == CreateOrderOutcome(u, items, code, "none", coupons, discounts,
                                    orders, carts, now)
            active == ActiveDiscounts(discounts, now)
            amount == CommitAmountAfterCoupon(items, code, coupons, now)
        IN  \A i \in 1..Len(active) :
                (/\ Len(orders) < MaxOrders
                 /\ o.response.err \notin {"CouponNotFound", "CouponUsageLimit",
                                           "MinimumOrderNotMet"}
                 /\ ~CanBeApplied(active[i], discounts, now, amount,
                                  TotalQuantity(items))) =>
                    /\ o.response.status = 201
                    /\ Len(o.orders) = Len(orders) + 1
                    /\ active[i] \notin
                            Recorded(o.orders[Len(o.orders)].automaticDiscounts)
                    /\ o.discounts[active[i]] = discounts[active[i]]

\* the scope test of discountController.calculateApplicableDiscounts: a
\* discount without applicableProducts matches every order, one with
\* applicableProducts matches an order that has one of them among its items
ScopeMatches(d, items) ==
    \/ ApplicableProducts(d) = {}
    \/ \E q \in ApplicableProducts(d) :
            q \in ReqProducts /\ items[q] > 0

\* C22: a discount with a scope of products is applied to an order only if
\* one of the order's items is in the scope: for items of which none is,
\* calculateOrderAmount, createOrder and updateOrder do not list the discount
\* and createOrder leaves its usage as it was
C22_ScopedDiscountNeedsMatch ==
    \A d \in DiscountIds, items \in PricedItemSets :
        ~ScopeMatches(d, items) =>
            /\ \A code \in ReqCodes, preserve \in BOOLEAN :
                    d \notin Recorded(
                        CalculateOrderAmountResult(items, code, preserve, coupons,
                            discounts, now).body.automaticDiscounts)
            /\ \A u \in Users, code \in ReqCodes, fail \in FailPoints :
                    LET o == CreateOrderOutcome(u, items, code, fail, coupons,
                                                discounts, orders, carts, now)
                    IN  /\ o.discounts[d] = discounts[d]
                        /\ \A i \in (Len(orders) + 1)..Len(o.orders) :
                                d \notin Recorded(o.orders[i].automaticDiscounts)
            /\ \A u \in Users, oid \in 1..Len(orders), code \in ReqCodes :
                    LET o == UpdateOrderOutcome(u, oid, items, code, coupons,
                                                discounts, orders, carts, now)
                    IN  o.response.status = 200 =>
                            d \notin Recorded(o.orders[oid].automaticDiscounts)

----------------------------------------------------------------------------
(* The order of the automatic discounts *)

\* the orders in which Discount.find may return the same documents
FindOrders(seq) ==
    LET elems == {seq[i] : i \in 1..Len(seq)}
    IN  {q \in [1..Len(seq) -> elems] : \A e \in elems : \E i \in 1..Len(seq) : q[i] = e}

----------------------------------------------------------------------------
(* Stacked discounts *)

\* subtotal + taxAmount + shippingCost of a stored order
PreDiscountTotal(order) ==
    order.pricing.subtotal + order.pricing.taxAmount + order.pricing.shippingCost

----------------------------------------------------------------------------
(* Order status *)

\* C25: an updateOrderStatus request of a user whose role is not admin
\* changes the status of no order
C25_StatusChangeAdminOnly ==
    \A u \in Users, oid \in ReqOrderIds, status \in Statuses :
        Role(u) # "admin" =>
            LET o == UpdateOrderStatusOutcome(u, oid, status, coupons, discounts,
                                              orders, carts)
            IN  \A i \in 1..Len(orders) : o.orders[i].status = orders[i].status

----------------------------------------------------------------------------
(* Counting under interleaving *)

\* the orders stored with coupon c applied
OrdersWith(c) == {i \in 1..Len(orders) : orders[i].appliedCoupon.couponId = c}

\* C26: when no createOrder request is under way, the stored usedCount of a
\* coupon with a usage cap is not below the number of orders stored with the
\* coupon applied: no increment is lost when two requests load the coupon,
\* each add one to their copy and each save it
C26_NoIncrementLost ==
    (\A p \in Racers : reqs[p].pc \in {"idle", "done"}) =>
        \A c \in CouponCodes :
            CouponDoc(c).usageLimit > 0 =>
                coupons[c].usedCount >= Cardinality(OrdersWith(c))

\* C27: after any sequence of createOrder and applyCoupon requests a coupon
\* with a usage cap has usedCount <= usageLimit, and an applyCoupon request
\* on a coupon that is out of uses or inactive leaves its usedCount as it was
C27_CapNeverPassed ==
    /\ \A c \in CouponCodes :
            CouponDoc(c).usageLimit > 0 =>
                coupons[c].usedCount <= CouponDoc(c).usageLimit
    /\ \A c \in CouponCodes :
            (CouponLimitReached(c, coupons) \/ ~coupons[c].isActive) =>
                ApplyCouponOutcome(c, coupons, discounts, orders, carts)
                    .coupons[c].usedCount = coupons[c].usedCount

----------------------------------------------------------------------------
(* Edits and the usage counters *)

\* C28: an updateOrder request leaves usedCount and isActive of every coupon
\* and every discount as they were, also when it applies a coupon or
\* automatic discounts to the order
C28_EditKeepsCounters ==
    [][resp'.op = "updateOrder" =>
            /\ coupons' = coupons
            /\ discounts' = discounts]_vars

\* an edit has put the capped coupon on an order while the coupon has never
\* been counted as used
C28_Witness ==
    /\ resp.op = "updateOrder"
    /\ resp.status = 200
    /\ resp.coupon = "SAVE20"
    /\ Len(orders) = 1
    /\ orders[1].appliedCoupon.code = "SAVE20"
    /\ coupons["SAVE20"].usedCount = 0
    /\ coupons["SAVE20"].isActive

\* C29: an order whose status is cancelled keeps that status and its items
\* through every request
C29_CancelledIsTerminal ==
    [][\A i \in 1..Len(orders) :
            orders[i].status = "cancelled" =>
                /\ orders'[i].status = "cancelled"
                /\ orders'[i].items = orders[i].items]_vars

----------------------------------------------------------------------------
(* Daily tasks *)

\* C30: whatever the invocations of generateDailyTasks and however their
\* steps interleave, every (daily template, user) pair has at most one daily
\* task created on any one day
C30_OneTaskPerDay ==
    \A pair \in Pairs, day \in Days : tasks[pair, day] <= 1

====
